---- MODULE Spec2Model ----
(***************************************************************************)
(* Duck Machine DM2018: the CPU's fetch/decode/execute cycle (cpu.py), the *)
(* bit-field primitive (bitfield.py) and the two-pass symbolic assembler   *)
(* (assembler_pass1.py), with the properties checked of them.              *)
(***************************************************************************)
EXTENDS Integers, Sequences, FiniteSets, TLC

(***************************************************************************)
(* Program constants                                                       *)
(***************************************************************************)
WORD_SIZE == 32
ERROR_LIMIT == 5
NumRegs == 16
PC == 15

(***************************************************************************)
(* Bounds of the model                                                     *)
(***************************************************************************)
\* memory holds the addresses 0 .. MemSize-1
MemSize == 3
\* highest bit of the words and fields the functions of bitfield.py are tried on
MaxBit == 4
\* |value| of an ALU result the model follows; beyond it a run is cut off
MaxVal == 16
\* longest source text of the assembler, in lines
MaxLines == 3

None == "None"

(***************************************************************************)
(* Python integer bit operations (two's complement, unbounded)             *)
(***************************************************************************)
RECURSIVE Pow2(_)
Pow2(n) == IF n <= 0 THEN 1 ELSE 2 * Pow2(n - 1)

RECURSIVE AndBits(_, _)
AndBits(a, b) ==
    IF a = 0 \/ b = 0 THEN 0
    ELSE IF a = -1 THEN b
    ELSE IF b = -1 THEN a
    \* eight low bits at once when one operand has them all 0 or all 1
    ELSE IF a % 256 = 0 \/ b % 256 = 0 THEN 256 * AndBits(a \div 256, b \div 256)
    ELSE IF a % 256 = 255 THEN 256 * AndBits(a \div 256, b \div 256) + (b % 256)
    ELSE IF b % 256 = 255 THEN 256 * AndBits(a \div 256, b \div 256) + (a % 256)
    ELSE 2 * AndBits(a \div 2, b \div 2) + (a % 2) * (b % 2)

\* a & b, each operand evaluated once
BitAnd(a, b) == CHOOSE r \in { AndBits(x, y) : x \in {a}, y \in {b} } : TRUE

\* ~a, written so that no intermediate value leaves the 32-bit range
BitNot(a) == IF a < 0 THEN -(a + 1) ELSE (-a) - 1

BitOr(a, b) == BitNot(BitAnd(BitNot(a), BitNot(b)))

ShiftLeft(a, n) == a * Pow2(n)

ShiftRight(a, n) == a \div Pow2(n)

(***************************************************************************)
(* bitfield.py                                                             *)
(***************************************************************************)
RECURSIVE MaskLoop(_, _)
MaskLoop(mask, n) == IF n = 0 THEN mask ELSE MaskLoop(ShiftLeft(mask, 1) + 1, n - 1)

BitField(from_bit, to_bit) ==
    LET mask == MaskLoop(0, to_bit - from_bit + 1)
        shifted_mask == ShiftLeft(mask, from_bit)
    IN  [from_bit |-> from_bit, to_bit |-> to_bit,
         width |-> to_bit - from_bit + 1,
         mask |-> mask,
         shifted_mask |-> shifted_mask,
         mask_inverse |-> BitNot(shifted_mask)]

\* an insert that does not clear the field of the word first
insert_keeping_old(bf, field_val, word) ==
    BitOr(BitAnd(bf.shifted_mask, ShiftLeft(field_val, bf.from_bit)), word)

insert(bf, field_val, word) ==
    BitOr(BitAnd(bf.shifted_mask, ShiftLeft(field_val, bf.from_bit)),
          BitAnd(word, bf.mask_inverse))

extract(bf, word) == ShiftRight(BitAnd(bf.shifted_mask, word), bf.from_bit)

\* the two assert statements of sign_extend
sign_extend_asserts(field, width) ==
    /\ width > 1
    /\ field >= 0 /\ field < ShiftLeft(1, width + 1)

\* a sign extension that subtracts the sign bit from the whole field
sign_extend_unmasked(field, width) ==
    LET sign_bit == ShiftLeft(1, width - 1)
    IN  IF BitAnd(field, sign_bit) # 0
        THEN field - sign_bit
        ELSE field

sign_extend(field, width) ==
    LET sign_bit == ShiftLeft(1, width - 1)
        mask == sign_bit - 1
    IN  IF BitAnd(field, sign_bit) # 0
        THEN BitAnd(field, mask) - sign_bit
        ELSE field

extract_signed(bf, word) == sign_extend(extract(bf, word), bf.width)

(***************************************************************************)
(* Instruction format: OpCode, CondFlag, encode, decode                    *)
(***************************************************************************)
OpCode == [HALT |-> 0, LOAD |-> 1, STORE |-> 2, ADD |-> 3,
           SUB |-> 5, MUL |-> 6, DIV |-> 7]

OpNames == DOMAIN OpCode

OpName(code) == CHOOSE n \in OpNames : OpCode[n] = code

\* CondFlag is a bit mask: M(inus), Z(ero), P(ositive), V (overflow)
CondFlag == [M |-> 1, Z |-> 2, P |-> 4, V |-> 8, NEVER |-> 0, ALWAYS |-> 15]

CondNames == DOMAIN CondFlag

instr_field == BitField(26, 30)
cond_field == BitField(22, 25)
reg_target_field == BitField(18, 21)
reg_src1_field == BitField(14, 17)
reg_src2_field == BitField(10, 13)
offset_field == BitField(0, 9)

Instruction(op, cond, reg_target, reg_src1, reg_src2, offset) ==
    [op |-> op, cond |-> cond, reg_target |-> reg_target,
     reg_src1 |-> reg_src1, reg_src2 |-> reg_src2, offset |-> offset]

encode(instr) ==
    insert(instr_field, OpCode[instr.op],
    insert(cond_field, instr.cond,
    insert(reg_target_field, instr.reg_target,
    insert(reg_src1_field, instr.reg_src1,
    insert(reg_src2_field, instr.reg_src2,
    insert(offset_field, instr.offset, 0))))))

\* decode fails (raises) on an opcode field that is no known opcode
decodable(word) ==
    LET code == extract(instr_field, word)
    IN  \E n \in OpNames : OpCode[n] = code

decode(word) ==
    Instruction(OpName(extract(instr_field, word)),
                extract(cond_field, word),
                extract(reg_target_field, word),
                extract(reg_src1_field, word),
                extract(reg_src2_field, word),
                extract_signed(offset_field, word))

(***************************************************************************)
(* ALU                                                                     *)
(***************************************************************************)
ALU_flags(result) ==
    IF result < 0 THEN CondFlag.M
    ELSE IF result = 0 THEN CondFlag.Z
    ELSE CondFlag.P

\* Python's floor division
ALU_exec(op, in1, in2) ==
    IF op = "DIV" /\ in2 = 0 THEN <<0, CondFlag.V>>
    ELSE LET result ==
                 CASE op = "ADD" -> in1 + in2
                   [] op = "SUB" -> in1 - in2
                   [] op = "MUL" -> in1 * in2
                   [] op = "DIV" -> in1 \div in2
                   [] op = "LOAD" -> in1 + in2
                   [] op = "STORE" -> in1 + in2
                   [] op = "HALT" -> 0
         IN  <<result, ALU_flags(result)>>

(***************************************************************************)
(* State                                                                   *)
(***************************************************************************)
VARIABLES
    registers,   \* CPU.registers: the value each Register object holds
    memory,      \* CPU.memory: address -> word
    condition,   \* CPU.condition
    halted,      \* CPU.halted
    running,     \* control is inside the while loop of CPU.run
    event,       \* the CPUStep event last passed to notify_all
    lines,       \* the source text handed to build_table and transform_line
    phase,       \* where main is: "build_table", "transform_line", "assembled", "loaded"
    lnum,        \* the loop index of the pass in progress
    address,     \* the address counter of the pass in progress
    datadict,    \* the symbol table of build_table
    instructions, \* the output list of transform_line
    call,        \* a call of a function of bitfield.py: its name and arguments
    returned     \* what that call returned, or that it raised

cpu_vars == <<registers, memory, condition, halted, running, event>>

asm_vars == <<lines, phase, lnum, address, datadict, instructions>>

lib_vars == <<call, returned>>

vars == <<registers, memory, condition, halted, running, event,
          lines, phase, lnum, address, datadict, instructions, call, returned>>

(***************************************************************************)
(* Register, ZeroRegister, Memory                                          *)
(***************************************************************************)
Regs == 0 .. (NumRegs - 1)

\* a register file of sixteen Registers, none of them a ZeroRegister
RegisterClass_all_plain == [i \in Regs |-> "Register"]

\* CPU.__init__: registers[0] is a ZeroRegister, the fifteen others are Registers
RegisterClass == [i \in Regs |-> IF i = 0 THEN "ZeroRegister" ELSE "Register"]

\* ZeroRegister.get is 0 whatever was stored, ZeroRegister.put stores nothing
reg_get(regs, i) == IF RegisterClass[i] = "ZeroRegister" THEN 0 ELSE regs[i]

reg_put(regs, i, v) ==
    IF RegisterClass[i] = "ZeroRegister" THEN regs ELSE [regs EXCEPT ![i] = v]

Addrs == 0 .. (MemSize - 1)

\* Memory.get and Memory.put raise on an address outside the memory
InMemory(addr) == addr \in Addrs

(***************************************************************************)
(* cpu.py: CPU.step                                                        *)
(***************************************************************************)
CPUState ==
    [registers |-> registers, memory |-> memory, condition |-> condition,
     halted |-> halted, raised |-> FALSE]

\* lines 47-49: the fetch and the decode succeed
step_fetch_ok(s) ==
    /\ InMemory(reg_get(s.registers, PC))
    /\ decodable(s.memory[reg_get(s.registers, PC)])

step_instr(s) == decode(s.memory[reg_get(s.registers, PC)])

\* line 53: the predicate of the fetched instruction is satisfied
step_executes(s, instr) == BitAnd(s.condition, instr.cond) # 0

\* the operands read after the program counter was advanced
read_operands_advanced(s, instr) ==
    LET regs1 == reg_put(s.registers, PC, reg_get(s.registers, PC) + 1)
    IN  <<reg_get(regs1, instr.reg_src1),
          reg_get(regs1, instr.reg_src2) + instr.offset>>

\* lines 54-56: the operands, read from the registers as they are on entry
read_operands(s, instr) ==
    <<reg_get(s.registers, instr.reg_src1),
      reg_get(s.registers, instr.reg_src2) + instr.offset>>

\* a skipped instruction that also resets the condition flags
step_skip_resetting(s) ==
    [s EXCEPT !.registers = reg_put(s.registers, PC, reg_get(s.registers, PC) + 1),
              !.condition = CondFlag.ALWAYS]

\* line 72: the instruction is skipped
step_skip(s) ==
    [s EXCEPT !.registers = reg_put(s.registers, PC, reg_get(s.registers, PC) + 1)]

\* a LOAD that puts the effective address, not the word there, in the target
step_exec_load_address(s, instr) ==
    LET ops == read_operands(s, instr)
        regs1 == reg_put(s.registers, PC, reg_get(s.registers, PC) + 1)
        alu == ALU_exec(instr.op, ops[1], ops[2])
        result == alu[1]
        s1 == [s EXCEPT !.registers = regs1, !.condition = alu[2]]
    IN  CASE instr.op = "STORE" ->
               IF InMemory(result)
               THEN [s1 EXCEPT !.memory =
                        [s.memory EXCEPT ![result] = reg_get(regs1, instr.reg_target)]]
               ELSE [s1 EXCEPT !.raised = TRUE]
          [] instr.op = "HALT" -> [s1 EXCEPT !.halted = TRUE]
          [] OTHER -> [s1 EXCEPT !.registers = reg_put(regs1, instr.reg_target, result)]

\* a step that takes the flags of the ALU for its arithmetic opcodes only
step_exec_flags_of_arithmetic(s, instr) ==
    LET ops == read_operands(s, instr)
        regs1 == reg_put(s.registers, PC, reg_get(s.registers, PC) + 1)
        alu == ALU_exec(instr.op, ops[1], ops[2])
        result == alu[1]
        s1 == [s EXCEPT !.registers = regs1,
                        !.condition = IF instr.op \in {"LOAD", "STORE", "HALT"}
                                      THEN s.condition ELSE alu[2]]
    IN  CASE instr.op = "LOAD" ->
               IF InMemory(result)
               THEN [s1 EXCEPT !.registers =
                        reg_put(regs1, instr.reg_target, s.memory[result])]
               ELSE [s1 EXCEPT !.raised = TRUE]
          [] instr.op = "STORE" ->
               IF InMemory(result)
               THEN [s1 EXCEPT !.memory =
                        [s.memory EXCEPT ![result] = reg_get(regs1, instr.reg_target)]]
               ELSE [s1 EXCEPT !.raised = TRUE]
          [] instr.op = "HALT" -> [s1 EXCEPT !.halted = TRUE]
          [] OTHER -> [s1 EXCEPT !.registers = reg_put(regs1, instr.reg_target, result)]

\* lines 54-70: the instruction is executed
step_exec(s, instr) ==
    LET ops == read_operands(s, instr)
        regs1 == reg_put(s.registers, PC, reg_get(s.registers, PC) + 1)
        alu == ALU_exec(instr.op, ops[1], ops[2])
        result == alu[1]
        s1 == [s EXCEPT !.registers = regs1, !.condition = alu[2]]
    IN  CASE instr.op = "LOAD" ->
               IF InMemory(result)
               THEN [s1 EXCEPT !.registers =
                        reg_put(regs1, instr.reg_target, s.memory[result])]
               ELSE [s1 EXCEPT !.raised = TRUE]
          [] instr.op = "STORE" ->
               IF InMemory(result)
               THEN [s1 EXCEPT !.memory =
                        [s.memory EXCEPT ![result] = reg_get(regs1, instr.reg_target)]]
               ELSE [s1 EXCEPT !.raised = TRUE]
          [] instr.op = "HALT" -> [s1 EXCEPT !.halted = TRUE]
          [] OTHER -> [s1 EXCEPT !.registers = reg_put(regs1, instr.reg_target, result)]

\* the state CPU.step leaves behind when it fetched and decoded instr
step_of(s, instr) ==
    IF step_executes(s, instr) THEN step_exec(s, instr) ELSE step_skip(s)

\* the CPUStep event of line 51; subject is the CPU as a listener finds it
\* when it is notified
CPUStep(s, instr) ==
    [subject |-> s,
     pc_addr |-> reg_get(s.registers, PC),
     instr_word |-> s.memory[reg_get(s.registers, PC)],
     instr |-> instr]

\* the event built and sent at the end of the step
step_notify_after(s, instr) ==
    << [CPUStep(s, instr) EXCEPT
            !.subject = step_of(s, instr),
            !.pc_addr = reg_get(step_of(s, instr).registers, PC)] >>

\* line 51: the events one call of step passes to notify_all
step_notify(s, instr) == << CPUStep(s, instr) >>

\* the model follows a step only while the ALU's operands stay small
InBounds(s, instr) ==
    step_executes(s, instr) =>
        LET ops == read_operands(s, instr)
        IN  ops[1] \in (-MaxVal) .. MaxVal /\ ops[2] \in (-MaxVal) .. MaxVal

\* one call of CPU.step; in_run tells whether CPU.run made the call
step(in_run) ==
    IF step_fetch_ok(CPUState)
    THEN \E instr \in {step_instr(CPUState)} :
           /\ InBounds(CPUState, instr)
           /\ \E t \in {step_of(CPUState, instr)} :
                 /\ registers' = t.registers
                 /\ memory' = t.memory
                 /\ condition' = t.condition
                 /\ halted' = t.halted
                 /\ \E sent \in {step_notify(CPUState, instr)} :
                        event' = IF sent = <<>> THEN event ELSE sent[Len(sent)]
                 /\ running' = (in_run /\ ~t.raised /\ ~t.halted)
    ELSE /\ running' = FALSE
         /\ UNCHANGED <<registers, memory, condition, halted, event>>

\* CPU.step called by the owner of the CPU
CallStepCPU == ~running /\ step(FALSE)

\* one iteration of the while loop of CPU.run
RunStep == running /\ step(TRUE) /\ UNCHANGED asm_vars /\ UNCHANGED lib_vars

\* CPU.run(from_addr) up to the first test of its loop
run(from_addr) ==
    /\ ~running
    /\ registers' = reg_put(registers, PC, from_addr)
    /\ running' = ~halted
    /\ UNCHANGED <<memory, condition, halted, event>>

(***************************************************************************)
(* assembler_pass1.py: source lines and the four line grammars             *)
(*                                                                         *)
(* A source line is kept as the parts of its text:                         *)
(*   form "instr"  [label:] OPCODE[/PRED] rT,rA,rB[[offset]] [comment]     *)
(*   form "data"   [label:] DATA [value] [comment]                         *)
(*   form "sym"    [label:] OPCODE[/PRED] [rT,]symbol [comment]            *)
(*   form "blank"  [label:] [comment]                                      *)
(*   form "junk"   any other text                                          *)
(* where OPCODE is any alphabetic word.  A part the text lacks is None.    *)
(***************************************************************************)
Line(label, form, opcode, predicate, target, src1, src2, offset, symbol, value, comment) ==
    [label |-> label, form |-> form, opcode |-> opcode, predicate |-> predicate,
     target |-> target, src1 |-> src1, src2 |-> src2, offset |-> offset,
     symbol |-> symbol, value |-> value, comment |-> comment]

\* a literal as written: its digits, after "0x" when hex
Literal(hex, digits) == [hex |-> hex, digits |-> digits]

\* no literal, no number: the optional group did not take part in the match
NoValue == Literal(FALSE, <<>>)

NoNumber == <<>>

\* register names, and int(name[1:])
RegText == <<"r0", "r1", "r2", "r3", "r4", "r5", "r6", "r7",
             "r8", "r9", "r10", "r11", "r12", "r13", "r14", "r15">>

IsReg(text) == \E i \in 1 .. NumRegs : RegText[i] = text

RegNum(text) == (CHOOSE i \in 1 .. NumRegs : RegText[i] = text) - 1

ASM_FULL_PAT(line) == line.form = "instr"

ASM_DATA_PAT(line) == line.form = "data"

ASM_COMMENT_PAT(line) == line.form = "blank"

ASM_SYMBOL_PAT(line) == line.form = "sym" /\ line.opcode \in {"LOAD", "STORE", "JUMP"}

\* the fields of the first pattern of PATTERNS that matches, or SyntaxError
parse_line(line) ==
    IF ASM_FULL_PAT(line) THEN
        [kind |-> "FULL", label |-> line.label, opcode |-> line.opcode,
         predicate |-> line.predicate, target |-> line.target, src1 |-> line.src1,
         src2 |-> line.src2, offset |-> line.offset, symbol |-> None,
         value |-> NoValue, comment |-> line.comment]
    ELSE IF ASM_DATA_PAT(line) THEN
        [kind |-> "DATA", label |-> line.label, opcode |-> "DATA",
         predicate |-> None, target |-> None, src1 |-> None,
         src2 |-> None, offset |-> NoNumber, symbol |-> None,
         value |-> line.value, comment |-> line.comment]
    ELSE IF ASM_COMMENT_PAT(line) THEN
        [kind |-> "COMMENT", label |-> line.label, opcode |-> None,
         predicate |-> None, target |-> None, src1 |-> None,
         src2 |-> None, offset |-> NoNumber, symbol |-> None,
         value |-> NoValue, comment |-> line.comment]
    ELSE IF ASM_SYMBOL_PAT(line) THEN
        [kind |-> "SYMBOL", label |-> line.label, opcode |-> line.opcode,
         predicate |-> line.predicate, target |-> line.target, src1 |-> None,
         src2 |-> None, offset |-> NoNumber, symbol |-> line.symbol,
         value |-> NoValue, comment |-> line.comment]
    ELSE [kind |-> "SyntaxError", label |-> None, opcode |-> None,
          predicate |-> None, target |-> None, src1 |-> None,
          src2 |-> None, offset |-> NoNumber, symbol |-> None,
          value |-> NoValue, comment |-> None]

RECURSIVE FromDigits(_, _)
FromDigits(digits, base) ==
    IF digits = <<>> THEN 0
    ELSE base * FromDigits(SubSeq(digits, 1, Len(digits) - 1), base)
         + digits[Len(digits)]

value_parse(int_literal) ==
    IF int_literal.hex THEN FromDigits(int_literal.digits, 16)
    ELSE FromDigits(int_literal.digits, 10)

fill_defaults(fields) ==
    [fields EXCEPT !.predicate = IF @ = None THEN "ALWAYS" ELSE @,
                   !.offset = IF @ = NoNumber THEN <<0>> ELSE @]

(***************************************************************************)
(* build_table: one iteration of its loop                                  *)
(***************************************************************************)
\* a labelled line always counted as a word, comment-only or not
build_table_iter_counting_comments(st, line) ==
    LET fields == parse_line(line)
    IN  IF fields.kind = "SyntaxError" THEN st
        ELSE IF fields.label # None
        THEN [datadict |-> (fields.label :> st.address) @@ st.datadict,
              address |-> st.address + 1]
        ELSE IF fields.kind # "COMMENT"
        THEN [st EXCEPT !.address = st.address + 1]
        ELSE st

\* a line that matches no grammar counted as a word
build_table_iter_counting_errors(st, line) ==
    LET fields == parse_line(line)
    IN  IF fields.kind = "SyntaxError" THEN [st EXCEPT !.address = st.address + 1]
        ELSE IF fields.label # None
        THEN [datadict |-> (fields.label :> st.address) @@ st.datadict,
              address |-> IF fields.kind # "COMMENT" THEN st.address + 1
                          ELSE st.address]
        ELSE IF fields.kind # "COMMENT"
        THEN [st EXCEPT !.address = st.address + 1]
        ELSE st

build_table_iter(st, line) ==
    LET fields == parse_line(line)
    IN  IF fields.kind = "SyntaxError" THEN st
        ELSE IF fields.label # None
        THEN [datadict |-> (fields.label :> st.address) @@ st.datadict,
              address |-> IF fields.kind # "COMMENT" THEN st.address + 1
                          ELSE st.address]
        ELSE IF fields.kind # "COMMENT"
        THEN [st EXCEPT !.address = st.address + 1]
        ELSE st

NoTable == [l \in {} |-> 0]

\* the state of build_table on reaching line n (0-based) of lns
RECURSIVE build_table_upto(_, _)
build_table_upto(lns, n) ==
    IF n = 0 THEN [datadict |-> NoTable, address |-> 0]
    ELSE build_table_iter(build_table_upto(lns, n - 1), lns[n])

build_table(lns) == build_table_upto(lns, Len(lns)).datadict

(***************************************************************************)
(* transform_line: the lines it emits                                      *)
(*                                                                         *)
(* An emitted line is kept as the parts its format string is filled with;  *)
(* Absent marks a part the format string does not have, None a part        *)
(* formatted from Python's None (the text "None").  lnum is the index of   *)
(* the source line it was emitted for.                                     *)
(***************************************************************************)
Absent == "Absent"

Out(kind, ln, label, opcode, predicate, target, src1, src2, offset, value, comment) ==
    [kind |-> kind, lnum |-> ln, label |-> label, opcode |-> opcode,
     predicate |-> predicate, target |-> target, src1 |-> src1, src2 |-> src2,
     offset |-> offset, value |-> value, comment |-> comment]

\* instruction_from_dict raises KeyError on an unknown opcode or predicate
instruction_from_dict_ok(fields) ==
    fields.opcode \in OpNames /\ fields.predicate \in CondNames

\* str(instruction_from_dict(fields))
instruction_from_dict(ln, fields) ==
    Out("FULL", ln, Absent, fields.opcode, fields.predicate, fields.target,
        fields.src1, fields.src2, fields.offset, NoNumber, Absent)

\* resolve_line raises KeyError when the symbol is not in the table
resolve_line_ok(fields, sym_table) == fields.symbol \in DOMAIN sym_table

\* an offset taken relative to the address after the resolving instruction
resolve_line_next(ln, current_address, fields, sym_table) ==
    LET new_addr == sym_table[fields.symbol] - (current_address + 1)
    IN  IF fields.opcode = "JUMP"
        THEN Out("RESOLVED", ln, Absent, "ADD",
                 IF fields.predicate # None THEN fields.predicate ELSE Absent,
                 "r15", "r0", "r15", <<new_addr>>, NoNumber, Absent)
        ELSE Out("RESOLVED", ln, Absent, fields.opcode, Absent,
                 fields.target, "r0", "r15", <<new_addr>>, NoNumber, Absent)

resolve_line(ln, current_address, fields, sym_table) ==
    LET new_addr == sym_table[fields.symbol] - current_address
    IN  IF fields.opcode = "JUMP"
        THEN IF fields.predicate # None
             THEN Out("RESOLVED", ln, Absent, "ADD", fields.predicate,
                      "r15", "r0", "r15", <<new_addr>>, NoNumber, Absent)
             ELSE Out("RESOLVED", ln, Absent, "ADD", Absent,
                      "r15", "r0", "r15", <<new_addr>>, NoNumber, Absent)
        ELSE Out("RESOLVED", ln, Absent, fields.opcode, Absent,
                 fields.target, "r0", "r15", <<new_addr>>, NoNumber, Absent)

\* one iteration of the loop of transform_line, on line number ln
transform_line_iter(st, line, ln, symb_table) ==
    LET fields == parse_line(line)
    IN  CASE fields.kind = "FULL" ->
               IF instruction_from_dict_ok(fill_defaults(fields))
               THEN [address |-> st.address + 1,
                     instructions |-> Append(st.instructions,
                         instruction_from_dict(ln, fill_defaults(fields)))]
               ELSE st
          [] fields.kind = "SYMBOL" ->
               IF resolve_line_ok(fields, symb_table)
               THEN [address |-> st.address + 1,
                     instructions |-> Append(st.instructions,
                         resolve_line(ln, st.address, fields, symb_table))]
               ELSE st
          [] fields.kind = "DATA" ->
               IF fields.value # NoValue
               THEN [address |-> st.address + 1,
                     instructions |-> Append(st.instructions,
                         Out("DATA", ln, fields.label, "DATA", Absent, Absent,
                             Absent, Absent, NoNumber, <<value_parse(fields.value)>>, Absent))]
               ELSE st
          [] fields.kind = "COMMENT" ->
               [st EXCEPT !.instructions = Append(@,
                   IF fields.label # None /\ fields.comment # None
                   THEN Out("COMMENT", ln, fields.label, Absent, Absent, Absent,
                            Absent, Absent, NoNumber, NoNumber, fields.comment)
                   ELSE IF fields.label # None
                   THEN Out("COMMENT", ln, fields.label, Absent, Absent, Absent,
                            Absent, Absent, NoNumber, NoNumber, Absent)
                   ELSE Out("COMMENT", ln, Absent, Absent, Absent, Absent,
                            Absent, Absent, NoNumber, NoNumber, fields.comment))]
          [] OTHER -> st

\* the state of transform_line on reaching line n (0-based) of lns
RECURSIVE transform_line_upto(_, _, _)
transform_line_upto(lns, n, symb_table) ==
    IF n = 0 THEN [address |-> 0, instructions |-> <<>>]
    ELSE transform_line_iter(transform_line_upto(lns, n - 1, symb_table),
                             lns[n], n - 1, symb_table)

(***************************************************************************)
(* The object code: each emitted line that occupies a word, as its word    *)
(***************************************************************************)
IsWord(out) == out.kind \in {"FULL", "RESOLVED", "DATA"}

WordLines(outs) == SelectSeq(outs, IsWord)

OffsetFits(n) == n \in (-Pow2(offset_field.width - 1)) .. (Pow2(offset_field.width - 1) - 1)

Assemblable(out) ==
    out.kind \in {"FULL", "RESOLVED"} =>
        /\ out.opcode \in OpNames
        /\ IsReg(out.target) /\ IsReg(out.src1) /\ IsReg(out.src2)
        /\ OffsetFits(out.offset[1])

assemble_word(out) ==
    IF out.kind = "DATA" THEN out.value[1]
    ELSE encode(Instruction(out.opcode,
                            IF out.predicate = Absent THEN CondFlag.ALWAYS
                            ELSE CondFlag[out.predicate],
                            RegNum(out.target), RegNum(out.src1),
                            RegNum(out.src2), out.offset[1]))

(***************************************************************************)
(* The source lines the model draws its source texts from                  *)
(***************************************************************************)
Comment == "# c"

SourceLines ==
    { \* loop: ADD r1,r1,r1
      Line("loop", "instr", "ADD", None, "r1", "r1", "r1", NoNumber, None, NoValue, None),
      \* HALT r0,r0,r0
      Line(None, "instr", "HALT", None, "r0", "r0", "r0", NoNumber, None, NoValue, None),
      \* BOGUS r1,r2,r3
      Line(None, "instr", "BOGUS", None, "r1", "r2", "r3", NoNumber, None, NoValue, None),
      \* x: BOGUS r1,r2,r3
      Line("x", "instr", "BOGUS", None, "r1", "r2", "r3", NoNumber, None, NoValue, None),
      \* x: DATA 5
      Line("x", "data", "DATA", None, None, None, None, NoNumber, None,
           Literal(FALSE, <<5>>), None),
      \* DATA 0x1f # c
      Line(None, "data", "DATA", None, None, None, None, NoNumber, None,
           Literal(TRUE, <<1, 15>>), Comment),
      \* loop: DATA
      Line("loop", "data", "DATA", None, None, None, None, NoNumber, None, NoValue, None),
      \* JUMP loop
      Line(None, "sym", "JUMP", None, None, None, None, NoNumber, "loop", NoValue, None),
      \* JUMP/Z x
      Line(None, "sym", "JUMP", "Z", None, None, None, NoNumber, "x", NoValue, None),
      \* LOAD r1,x
      Line(None, "sym", "LOAD", None, "r1", None, None, NoNumber, "x", NoValue, None),
      \* LOAD/Z r1,x
      Line(None, "sym", "LOAD", "Z", "r1", None, None, NoNumber, "x", NoValue, None),
      \* x: STORE r1,loop
      Line("x", "sym", "STORE", None, "r1", None, None, NoNumber, "loop", NoValue, None),
      \* STORE/P loop
      Line(None, "sym", "STORE", "P", None, None, None, NoNumber, "loop", NoValue, None),
      \* the empty line
      Line(None, "blank", None, None, None, None, None, NoNumber, None, NoValue, None),
      \* x: # c
      Line("x", "blank", None, None, None, None, None, NoNumber, None, NoValue, Comment),
      \* # c
      Line(None, "blank", None, None, None, None, None, NoNumber, None, NoValue, Comment),
      \* ???
      Line(None, "junk", None, None, None, None, None, NoNumber, None, NoValue, None),
      \* loop: ADD r1,x
      Line("loop", "sym", "ADD", None, "r1", None, None, NoNumber, "x", NoValue, None) }

SourceTexts == UNION { [1 .. n -> SourceLines] : n \in 1 .. MaxLines }

\* the lines the programs that are loaded and run are drawn from
ProgramLines ==
    { l \in SourceLines :
        \/ l.form = "instr" /\ l.opcode \in {"ADD", "HALT"}
        \/ l.form = "data" /\ l.label # None
        \/ l.form = "sym" /\ l.opcode # "ADD" /\ l.target # None
        \/ l.form = "sym" /\ l.opcode = "JUMP" }

Programs == UNION { [1 .. n -> ProgramLines] : n \in 1 .. MaxLines }

\* loop: ADD r1,r1,r1 / JUMP loop
LoopProgram ==
    << Line("loop", "instr", "ADD", None, "r1", "r1", "r1", NoNumber, None, NoValue, None),
       Line(None, "sym", "JUMP", None, None, None, None, NoNumber, "loop", NoValue, None) >>

\* x: DATA 5 / LOAD r1,x / HALT r0,r0,r0
DataProgram ==
    << Line("x", "data", "DATA", None, None, None, None, NoNumber, None,
            Literal(FALSE, <<5>>), None),
       Line(None, "sym", "LOAD", None, "r1", None, None, NoNumber, "x", NoValue, None),
       Line(None, "instr", "HALT", None, "r0", "r0", "r0", NoNumber, None, NoValue, None) >>

\* the values register 1 is given before a run
InitVals == {0, 1, 3}

ZeroRegs == [i \in Regs |-> 0]

ZeroMem == [a \in Addrs |-> 0]

\* no function of bitfield.py is called
NoCall ==
    [fn |-> "none", from_bit |-> 0, to_bit |-> 0, field_val |-> 0, word |-> 0, width |-> 0]

\* the call has not returned
NotReturned == [done |-> FALSE, raised |-> FALSE, word |-> 0, value |-> 0]

\* no event was sent yet
NoEvent ==
    [subject |-> [registers |-> ZeroRegs, memory |-> ZeroMem, condition |-> 0,
                  halted |-> FALSE, raised |-> FALSE],
     pc_addr |-> -1, instr_word |-> 0, instr |-> Instruction("HALT", 0, 0, 0, 0, 0)]

(***************************************************************************)
(* main: build_table, transform_line, then the object code loaded and run  *)
(***************************************************************************)
Init ==
    /\ lines \in Programs \cup {LoopProgram, DataProgram}
    /\ phase = "build_table"
    /\ lnum = 0
    /\ address = 0
    /\ datadict = NoTable
    /\ instructions = <<>>
    /\ registers = ZeroRegs
    /\ memory = ZeroMem
    /\ condition = CondFlag.ALWAYS
    /\ halted = FALSE
    /\ running = FALSE
    /\ event = NoEvent
    /\ call = NoCall
    /\ returned = NotReturned

\* one iteration of the loop of build_table
BuildTableStep ==
    /\ phase = "build_table"
    /\ lnum < Len(lines)
    /\ LET st == build_table_iter([datadict |-> datadict, address |-> address],
                                  lines[lnum + 1])
       IN  /\ datadict' = st.datadict
           /\ address' = st.address
    /\ lnum' = lnum + 1
    /\ UNCHANGED <<lines, phase, instructions>>
    /\ UNCHANGED cpu_vars
    /\ UNCHANGED lib_vars

\* build_table returns its table and main calls transform_line
TransformLineCall ==
    /\ phase = "build_table"
    /\ lnum = Len(lines)
    /\ phase' = "transform_line"
    /\ lnum' = 0
    /\ address' = 0
    /\ UNCHANGED <<lines, datadict, instructions>>
    /\ UNCHANGED cpu_vars
    /\ UNCHANGED lib_vars

\* one iteration of the loop of transform_line
TransformLineStep ==
    /\ phase = "transform_line"
    /\ lnum < Len(lines)
    /\ LET st == transform_line_iter(
                     [address |-> address, instructions |-> instructions],
                     lines[lnum + 1], lnum, datadict)
       IN  /\ address' = st.address
           /\ instructions' = st.instructions
    /\ lnum' = lnum + 1
    /\ phase' = IF lnum + 1 = Len(lines) THEN "assembled" ELSE phase
    /\ UNCHANGED <<lines, datadict>>
    /\ UNCHANGED cpu_vars
    /\ UNCHANGED lib_vars

\* the emitted lines are assembled to words and loaded from address 0 into
\* the memory of a new CPU, register 1 preset
Load ==
    /\ phase = "assembled"
    /\ Len(WordLines(instructions)) <= MemSize
    /\ \A i \in 1 .. Len(instructions) : Assemblable(instructions[i])
    /\ memory' = [a \in Addrs |->
                    IF a < Len(WordLines(instructions))
                    THEN assemble_word(WordLines(instructions)[a + 1])
                    ELSE 0]
    /\ \E v \in InitVals : registers' = [ZeroRegs EXCEPT ![1] = v]
    /\ phase' = "loaded"
    /\ UNCHANGED <<condition, halted, running, event>>
    /\ UNCHANGED <<lines, lnum, address, datadict, instructions>>
    /\ UNCHANGED lib_vars

\* run(0) on the loaded program
MainRun ==
    /\ phase = "loaded"
    /\ run(0)
    /\ phase' = "run"
    /\ UNCHANGED <<lines, lnum, address, datadict, instructions>>
    /\ UNCHANGED lib_vars

Next ==
    \/ BuildTableStep
    \/ TransformLineCall
    \/ TransformLineStep
    \/ Load
    \/ MainRun
    \/ RunStep

Spec == Init /\ [][Next]_vars

\* once a program is loaded, main calls run and the loop of run goes on: a
\* sequential program takes its next step
SpecLive == Spec /\ WF_vars(MainRun) /\ WF_vars(RunStep)

(***************************************************************************)
(* The two passes of the assembler on their own, over every source text    *)
(***************************************************************************)
InitAsm ==
    /\ lines \in SourceTexts
    /\ phase = "build_table"
    /\ lnum = 0
    /\ address = 0
    /\ datadict = NoTable
    /\ instructions = <<>>
    /\ registers = ZeroRegs
    /\ memory = ZeroMem
    /\ condition = CondFlag.ALWAYS
    /\ halted = FALSE
    /\ running = FALSE
    /\ event = NoEvent
    /\ call = NoCall
    /\ returned = NotReturned

NextAsm ==
    \/ BuildTableStep
    \/ TransformLineCall
    \/ TransformLineStep

SpecAsm == InitAsm /\ [][NextAsm]_vars

(***************************************************************************)
(* A CPU on its own, over memories of instruction words                    *)
(***************************************************************************)
\* what the first word of a memory is drawn from: instructions that set the flags
FirstInstrs ==
    { Instruction("SUB", CondFlag.ALWAYS, 2, 0, 1, 0),
      Instruction("ADD", CondFlag.ALWAYS, 0, 1, 0, 0),
      Instruction("DIV", CondFlag.ALWAYS, 1, 1, 0, 0),
      Instruction("ADD", CondFlag.ALWAYS, 1, PC, PC, 1) }

\* what the second word is drawn from: every opcode under several predicates
\* and operand shapes
SecondInstrs ==
    { Instruction(op, CondFlag[c], sh[1], sh[2], sh[3], sh[4]) :
        op \in OpNames, c \in {"ALWAYS", "NEVER", "Z", "P"},
        sh \in { <<1, 1, 2, 0>>, <<2, 0, PC, 1>>, <<0, PC, 1, -1>>, <<PC, 0, 0, 0>> } }

\* the other words are data
Padding == {5}

CPUMemories ==
    { [a \in Addrs |-> IF a = 0 THEN encode(i0)
                       ELSE IF a = 1 THEN encode(i1) ELSE d] :
        i0 \in FirstInstrs, i1 \in SecondInstrs, d \in Padding }

InitCPU ==
    /\ memory \in CPUMemories
    /\ \E v \in InitVals : registers = [ZeroRegs EXCEPT ![1] = v]
    /\ condition = CondFlag.ALWAYS
    /\ halted = FALSE
    /\ running = FALSE
    /\ event = NoEvent
    /\ call = NoCall
    /\ returned = NotReturned
    /\ lines = <<>>
    /\ phase = "cpu"
    /\ lnum = 0
    /\ address = 0
    /\ datadict = NoTable
    /\ instructions = <<>>

CallStep ==
    /\ phase = "cpu"
    /\ CallStepCPU
    /\ UNCHANGED asm_vars
    /\ UNCHANGED lib_vars

Run ==
    /\ phase = "cpu"
    /\ \E from_addr \in Addrs : run(from_addr)
    /\ UNCHANGED asm_vars
    /\ UNCHANGED lib_vars

NextCPU ==
    \/ CallStep
    \/ Run
    \/ RunStep

SpecCPU == InitCPU /\ [][NextCPU]_vars

(***************************************************************************)
(* The functions of bitfield.py on their own                               *)
(***************************************************************************)
\* bf = BitField(from_bit, to_bit); bf.extract(bf.insert(field_val, word))
InsertCall(from_bit, to_bit, field_val, word) ==
    [fn |-> "insert", from_bit |-> from_bit, to_bit |-> to_bit,
     field_val |-> field_val, word |-> word, width |-> 0]

\* BitField(from_bit, to_bit).extract_signed(word)
ExtractSignedCall(from_bit, to_bit, word) ==
    [fn |-> "extract_signed", from_bit |-> from_bit, to_bit |-> to_bit,
     field_val |-> 0, word |-> word, width |-> 0]

\* sign_extend(field, width)
SignExtendCall(field, width) ==
    [fn |-> "sign_extend", from_bit |-> 0, to_bit |-> 0,
     field_val |-> field, word |-> 0, width |-> width]

\* every word of MaxBit+1 bits
SmallWords == 0 .. (Pow2(MaxBit + 1) - 1)

\* every field within the bits 0 .. MaxBit
SmallFields == { <<f, t>> \in (0 .. MaxBit) \X (0 .. MaxBit) : f <= t }

\* the six fields of an instruction word
FormatFields ==
    { instr_field, cond_field, reg_target_field, reg_src1_field, reg_src2_field,
      offset_field }

\* words of up to 31 bits
FormatWords ==
    { 0, 2147483647, 715827882, 1431655765,
      encode(Instruction("DIV", CondFlag.ALWAYS, 15, 1, 2, 1023)) }

\* the calls: every field of the small words with every value from -2 to
\* two beyond the largest small word, and the fields of the instruction
\* format with values that fit, the largest and -1
BitCalls ==
    { InsertCall(ft[1], ft[2], v, w) :
        ft \in SmallFields, v \in (-2) .. (Pow2(MaxBit + 1) + 1), w \in SmallWords }
    \cup UNION { { InsertCall(bf.from_bit, bf.to_bit, v, w) :
                     v \in {-1, 0, 1, bf.mask}, w \in FormatWords } : bf \in FormatFields }
    \cup { ExtractSignedCall(ft[1], ft[2], w) : ft \in SmallFields, w \in SmallWords }
    \cup UNION { { ExtractSignedCall(bf.from_bit, bf.to_bit, w) : w \in FormatWords } :
                   bf \in FormatFields }
    \cup { SignExtendCall(f, wd) :
             f \in (-2) .. (Pow2(MaxBit + 2) + 1), wd \in 0 .. (MaxBit + 1) }

InitBits ==
    /\ call \in BitCalls
    /\ returned = NotReturned
    /\ registers = ZeroRegs
    /\ memory = ZeroMem
    /\ condition = CondFlag.ALWAYS
    /\ halted = FALSE
    /\ running = FALSE
    /\ event = NoEvent
    /\ lines = <<>>
    /\ phase = "bitfield"
    /\ lnum = 0
    /\ address = 0
    /\ datadict = NoTable
    /\ instructions = <<>>

\* the field is inserted in the word and extracted from the result
InsertExtract ==
    /\ call.fn = "insert"
    /\ ~returned.done
    /\ LET bf == BitField(call.from_bit, call.to_bit)
       IN  \E inserted \in {insert(bf, call.field_val, call.word)} :
             returned' = [done |-> TRUE, raised |-> FALSE, word |-> inserted,
                          value |-> extract(bf, inserted)]
    /\ UNCHANGED <<call>>
    /\ UNCHANGED cpu_vars
    /\ UNCHANGED asm_vars

\* sign_extend: its asserts, then its value
SignExtendOutcome(field, width) ==
    IF sign_extend_asserts(field, width)
    THEN [done |-> TRUE, raised |-> FALSE, word |-> 0, value |-> sign_extend(field, width)]
    ELSE [done |-> TRUE, raised |-> TRUE, word |-> 0, value |-> 0]

SignExtend ==
    /\ call.fn = "sign_extend"
    /\ ~returned.done
    /\ returned' = SignExtendOutcome(call.field_val, call.width)
    /\ UNCHANGED <<call>>
    /\ UNCHANGED cpu_vars
    /\ UNCHANGED asm_vars

\* extract_signed: extract, then sign_extend of the field at the field's width
ExtractSigned ==
    /\ call.fn = "extract_signed"
    /\ ~returned.done
    /\ LET bf == BitField(call.from_bit, call.to_bit)
       IN  returned' = SignExtendOutcome(extract(bf, call.word), bf.width)
    /\ UNCHANGED <<call>>
    /\ UNCHANGED cpu_vars
    /\ UNCHANGED asm_vars

NextBits ==
    \/ InsertExtract
    \/ SignExtend
    \/ ExtractSigned

SpecBits == InitBits /\ [][NextBits]_vars

(***************************************************************************)
(* Properties of CPU.step                                                  *)
(***************************************************************************)
\* a call of CPU.step that fetched and decoded its instruction
StepTaken == (CallStep \/ RunStep) /\ step_fetch_ok(CPUState)

FetchAddr == reg_get(registers, PC)

Fetched == step_instr(CPUState)

\* C1: a step whose instruction's condition mask has no bit in common with
\* the condition flags changes nothing but the program counter, which ends
\* one greater than the fetch address, whatever the opcode.
C1_SkippedStepFrame ==
    [][ (StepTaken /\ BitAnd(condition, Fetched.cond) = 0) =>
            /\ \A i \in Regs \ {PC} : registers'[i] = registers[i]
            /\ registers'[PC] = FetchAddr + 1
            /\ memory' = memory
            /\ condition' = condition
            /\ halted' = halted ]_vars

\* a HALT under predicate P was fetched with other flags set and was skipped
C1_Witness ==
    /\ event.instr.op = "HALT"
    /\ event.instr.cond = CondFlag.P
    /\ condition = CondFlag.Z
    /\ ~halted
    /\ registers[PC] = event.pc_addr + 1

\* the value a source register gives when register 15 reads as pc15
SrcValue(r, pc15) == IF r = PC THEN pc15 ELSE reg_get(registers, r)

\* the ALU result of the fetched instruction when register 15 reads as pc15
ResultWith(pc15) ==
    ALU_exec(Fetched.op, SrcValue(Fetched.reg_src1, pc15),
             SrcValue(Fetched.reg_src2, pc15) + Fetched.offset)[1]

\* what an executed step does with the ALU result r
WritesResult(r) ==
    /\ (Fetched.op \notin {"LOAD", "STORE", "HALT"} /\ Fetched.reg_target # 0)
           => registers'[Fetched.reg_target] = r
    /\ (Fetched.op = "LOAD" /\ InMemory(r) /\ Fetched.reg_target # 0)
           => registers'[Fetched.reg_target] = memory[r]
    /\ (Fetched.op = "STORE" /\ InMemory(r))
           => memory'[r] = SrcValue(Fetched.reg_target, FetchAddr + 1)

Executed == StepTaken /\ BitAnd(condition, Fetched.cond) # 0

\* C2 as stated: an executed step fetched from a reads a+1 for register 15
\* as a source operand.
C2_OperandsAfterAdvance ==
    [][ Executed => WritesResult(ResultWith(FetchAddr + 1)) ]_vars

\* C2 as amended: an executed step fetched from a reads a for register 15 as
\* a source operand; the program counter is a+1 when the result is written,
\* so it ends a+1 unless the step wrote its result to register 15.
C2_OperandsBeforeAdvance ==
    [][ Executed =>
            /\ WritesResult(ResultWith(FetchAddr))
            /\ (Fetched.reg_target # PC \/ Fetched.op \in {"STORE", "HALT"}
                \/ (Fetched.op = "LOAD" /\ ~InMemory(ResultWith(FetchAddr))))
                   => registers'[PC] = FetchAddr + 1 ]_vars

\* ADD r2,r0,r15[1] was executed at address a and left a+1 in r2
C2_Witness ==
    /\ event.instr = Instruction("ADD", CondFlag.ALWAYS, 2, 0, PC, 1)
    /\ registers[2] = event.pc_addr + 1
    /\ registers[PC] = event.pc_addr + 1

(***************************************************************************)
(* Properties of the assembler and the CPU together                        *)
(***************************************************************************)
\* the emitted line whose word was loaded at address a
LoadedLine(a) == WordLines(instructions)[a + 1]

\* the source line an emitted line was emitted for
SourceOf(out) == lines[out.lnum + 1]

\* the loop of run executes, unchanged since the load, the word of a resolved
\* symbolic line
ExecutesResolved ==
    /\ phase = "run"
    /\ RunStep
    /\ step_fetch_ok(CPUState)
    /\ FetchAddr < Len(WordLines(instructions))
    /\ LoadedLine(FetchAddr).kind = "RESOLVED"
    /\ memory[FetchAddr] = assemble_word(LoadedLine(FetchAddr))
    /\ BitAnd(condition, Fetched.cond) # 0

\* C3: a symbolic instruction at address a that refers to a label of
\* symbol-table address L is resolved to offset L - a, and executing it at a
\* sets the program counter to L (JUMP), loads memory[L] into the target
\* register (LOAD) or stores the target register to memory[L] (STORE).
C3_PCRelativeAgreement ==
    [][ ExecutesResolved =>
            LET out == LoadedLine(FetchAddr)
                src == SourceOf(out)
                L == datadict[src.symbol]
            IN  /\ out.offset[1] = L - FetchAddr
                /\ src.opcode = "JUMP" => registers'[PC] = L
                /\ (src.opcode = "LOAD" /\ InMemory(L))
                       => registers'[RegNum(src.target)] = memory[L]
                /\ (src.opcode = "STORE" /\ InMemory(L))
                       => memory'[L] = registers[RegNum(src.target)] ]_vars

\* the step before executed a JUMP to a label two or more words ahead
C3_Witness ==
    /\ phase = "run"
    /\ event.pc_addr \in 0 .. (Len(WordLines(instructions)) - 1)
    /\ LET out == LoadedLine(event.pc_addr)
       IN  /\ out.kind = "RESOLVED"
           /\ SourceOf(out).opcode = "JUMP"
           /\ event.instr_word = assemble_word(out)
           /\ out.offset[1] >= 2
           /\ datadict[SourceOf(out).symbol] = event.pc_addr + out.offset[1]
           /\ registers[PC] = datadict[SourceOf(out).symbol]

\* the same for a backward LOAD and a backward STORE
C3_WitnessLoad ==
    /\ phase = "run"
    /\ event.pc_addr \in 0 .. (Len(WordLines(instructions)) - 1)
    /\ LET out == LoadedLine(event.pc_addr)
       IN  /\ out.kind = "RESOLVED"
           /\ SourceOf(out).opcode = "LOAD"
           /\ event.instr_word = assemble_word(out)
           /\ out.offset[1] < 0
           /\ registers[1] = 5
           /\ memory[datadict[SourceOf(out).symbol]] = 5

C3_WitnessStore ==
    /\ phase = "run"
    /\ event.pc_addr \in 0 .. (Len(WordLines(instructions)) - 1)
    /\ LET out == LoadedLine(event.pc_addr)
       IN  /\ out.kind = "RESOLVED"
           /\ SourceOf(out).opcode = "STORE"
           /\ event.instr_word = assemble_word(out)
           /\ out.offset[1] < 0
           /\ registers[1] = 3
           /\ memory[datadict[SourceOf(out).symbol]] = 3

(***************************************************************************)
(* Properties of the two passes of the assembler                           *)
(***************************************************************************)
LineNums == 1 .. Len(lines)

Parsed(i) == parse_line(lines[i])

\* line i (from 1) has been through the loop of pass 1, of pass 2
Pass1Done(i) == phase # "build_table" \/ i <= lnum

Pass2Done(i) == phase = "assembled" \/ (phase = "transform_line" /\ i <= lnum)

\* the lines emitted for line i
EmittedFor(i) == { k \in 1 .. Len(instructions) : instructions[k].lnum = i - 1 }

\* C4: on reaching any line, the address counter of pass 2 equals the
\* address counter pass 1 had on reaching that line.
C4_PassesInLockStep ==
    (phase = "transform_line" /\ lnum < Len(lines))
        => address = build_table_upto(lines, lnum).address

\* line i occupies a machine word: its kind is FULL, DATA or SYMBOL
OccupiesWord(i) == Parsed(i).kind \in {"FULL", "DATA", "SYMBOL"}

WordsBefore(i) == Cardinality({ j \in 1 .. (i - 1) : OccupiesWord(j) })

LabelsOf(lns) == { parse_line(lns[i]).label : i \in 1 .. Len(lns) } \ {None}

\* the line that carries label l (the last such line, would there be several)
Carrier(l) ==
    CHOOSE i \in LineNums :
        /\ Parsed(i).label = l
        /\ \A j \in (i + 1) .. Len(lines) : Parsed(j).label # l

\* C5: after build_table every label of the text maps to the number of
\* FULL, DATA and SYMBOL lines that strictly precede the line carrying it.
C5_LabelAddresses ==
    ((phase = "build_table" /\ lnum = Len(lines))
     \/ phase \in {"transform_line", "assembled"})
        => /\ DOMAIN datadict = LabelsOf(lines)
           /\ \A l \in LabelsOf(lines) : datadict[l] = WordsBefore(Carrier(l))

\* a word, then a labelled comment-only line, then a labelled word: both
\* labels got address 1
C5_Witness ==
    /\ phase = "transform_line"
    /\ Len(lines) = 3
    /\ OccupiesWord(1)
    /\ Parsed(2).kind = "COMMENT" /\ Parsed(2).label = "x"
    /\ OccupiesWord(3) /\ Parsed(3).label = "loop"
    /\ datadict["x"] = 1 /\ datadict["loop"] = 1

\* line i has the shape of a full instruction and an unknown opcode mnemonic
UnknownOpcode(i) == lines[i].form = "instr" /\ lines[i].opcode \notin OpNames

\* C6: a line of full-instruction shape with an unknown opcode is a syntax
\* error of parse_line, adds no symbol-table entry and emits no line.
C6_UnknownOpcodeRejected ==
    \A i \in LineNums :
        (UnknownOpcode(i) /\ Pass1Done(i)) =>
            /\ Parsed(i).kind = "SyntaxError"
            /\ (\A j \in LineNums \ {i} : lines[j].label # lines[i].label)
                   => lines[i].label \notin DOMAIN datadict
            /\ EmittedFor(i) = {}

\* the only lines of the text that fail in pass 2 are symbolic instructions
\* whose symbol is not in the table
OnlyUnresolvedFail ==
    \A i \in LineNums :
        /\ Parsed(i).kind = "FULL" => instruction_from_dict_ok(fill_defaults(Parsed(i)))
        /\ Parsed(i).kind = "DATA" => Parsed(i).value # NoValue

Unresolved(i) == Parsed(i).kind = "SYMBOL" /\ Parsed(i).symbol \notin DOMAIN datadict

\* C7: a symbolic line whose symbol is not in the table emits nothing, and
\* every other symbolic line is resolved to the offset from its own pass-1
\* address to its symbol's address.
C7_UnresolvedIsLocal ==
    (phase = "assembled" /\ OnlyUnresolvedFail) =>
        \A i \in LineNums :
            /\ Unresolved(i) => EmittedFor(i) = {}
            /\ (Parsed(i).kind = "SYMBOL" /\ ~Unresolved(i)) =>
                   /\ Cardinality(EmittedFor(i)) = 1
                   /\ \A k \in EmittedFor(i) :
                          instructions[k].offset[1] =
                              datadict[Parsed(i).symbol]
                              - build_table_upto(lines, i - 1).address

\* a text without the lines that match no grammar
Matching(lns) == SelectSeq(lns, LAMBDA l : parse_line(l).kind # "SyntaxError")

\* emitted lines without the line numbers they were emitted for
Texts(outs) == [k \in 1 .. Len(outs) |-> [outs[k] EXCEPT !.lnum = 0]]

\* C8: a line that matches no grammar is skipped in both passes and aborts
\* neither: at every point of pass 1 and of pass 2 the table, the address
\* counter and the emitted lines are those of the text without such lines.
C8_SyntaxErrorsSkipped ==
    LET seen == Matching(SubSeq(lines, 1, lnum))
    IN  /\ phase = "build_table" =>
               [datadict |-> datadict, address |-> address]
                   = build_table_upto(seen, Len(seen))
        /\ phase \in {"transform_line", "assembled"} =>
               /\ datadict = build_table(Matching(lines))
               /\ address = transform_line_upto(seen, Len(seen), datadict).address
               /\ Texts(instructions)
                      = Texts(transform_line_upto(seen, Len(seen), datadict).instructions)

\* `loop: ADD r1,x` matched no grammar, left no label, and the two lines
\* after it were emitted
C8_Witness ==
    /\ phase = "assembled"
    /\ Len(lines) = 3
    /\ lines[1].form = "sym" /\ lines[1].label = "loop"
    /\ Parsed(1).kind = "SyntaxError"
    /\ "loop" \notin DOMAIN datadict
    /\ address = 2
    /\ Len(instructions) = 2

(***************************************************************************)
(* The two end-to-end programs                                             *)
(***************************************************************************)
\* C9: `loop: ADD r1,r1,r1` / `JUMP loop`, assembled to two words and run
\* from address 0 with register 1 nonzero, never halts: run stays in its
\* loop and the fetch address alternates 0, 1, 0, 1, ...
C9_LoopNeverHalts ==
    (lines = LoopProgram /\ phase = "run" /\ registers[1] # 0) =>
        /\ Len(WordLines(instructions)) = 2
        /\ ~halted
        /\ running
        /\ registers[PC] \in {0, 1}
        /\ registers[PC] = IF event = NoEvent THEN 0 ELSE 1 - event.pc_addr

\* the loop went round twice: r1 went 3, 6, 12 and the JUMP led back to 0
C9_Witness ==
    /\ lines = LoopProgram
    /\ phase = "run"
    /\ event.pc_addr = 1
    /\ registers[PC] = 0
    /\ registers[1] = 12
    /\ ~halted

\* C10: `x: DATA 5` / `LOAD r1,x` / `HALT r0,r0,r0`, loaded at 0, 1, 2:
\* run(0) returns, with register 1 equal to 5 and halted true.
C10_DataProgramHalts ==
    (lines = DataProgram /\ phase = "loaded") ~>
        (phase = "run" /\ ~running /\ halted /\ registers[1] = 5)

C10_Witness ==
    /\ lines = DataProgram
    /\ phase = "run"
    /\ ~running
    /\ halted
    /\ registers[1] = 5
    /\ event.pc_addr = 2

(***************************************************************************)
(* Halting, register 0, the observation event, the frame of a step         *)
(***************************************************************************)
\* C11: halted is terminal: once halted is true it stays true, and no call
\* of step or run changes a register, a memory word or the condition flags.
C11_HaltedIsTerminal ==
    [][ halted =>
            /\ halted'
            /\ registers' = registers
            /\ memory' = memory
            /\ condition' = condition ]_vars

\* what a reader of register r must get: 0 of register 0, the stored value
\* of any other
ReadsOf(r) == IF r = 0 THEN 0 ELSE registers[r]

\* C12: register 0 reads 0 after any step; an executed ALU operation or LOAD
\* whose target is register 0 changes no register but the program counter;
\* an instruction that names register 0 as a source gets 0 for it.
C12_RegisterZero ==
    [][ StepTaken =>
            /\ reg_get(registers', 0) = 0
            /\ (Executed /\ Fetched.reg_target = 0
                /\ Fetched.op \notin {"STORE", "HALT"})
                   => \A i \in Regs \ {PC} : registers'[i] = registers[i]
            /\ (Executed /\ Fetched.reg_target # 0
                /\ Fetched.op \notin {"LOAD", "STORE", "HALT"})
                   => registers'[Fetched.reg_target] =
                          ALU_exec(Fetched.op, ReadsOf(Fetched.reg_src1),
                                   ReadsOf(Fetched.reg_src2) + Fetched.offset)[1] ]_vars

\* ADD r0,r1,r0 was executed with 3 in r1, and register 0 still reads 0
C12_Witness ==
    /\ event.instr = Instruction("ADD", CondFlag.ALWAYS, 0, 1, 0, 0)
    /\ registers[1] = 3
    /\ reg_get(registers, 0) = 0
    /\ registers[0] = 0
    /\ registers[PC] = event.pc_addr + 1

\* C13: a call of step that fetched and decoded sends exactly one event: it
\* carries the fetch address, the fetched word and the decoded instruction,
\* it shows the CPU as it was before the step changed anything, and it is
\* sent whether the instruction is then executed or skipped.
C13_OneEventBeforeExecution ==
    [][ StepTaken =>
            /\ Len(step_notify(CPUState, Fetched)) = 1
            /\ event' = step_notify(CPUState, Fetched)[1]
            /\ event'.pc_addr = registers[PC]
            /\ event'.instr_word = memory[registers[PC]]
            /\ event'.instr = decode(memory[registers[PC]])
            /\ event'.subject.registers = registers
            /\ event'.subject.memory = memory
            /\ event'.subject.condition = condition
            /\ event'.subject.halted = halted ]_vars

\* a STORE under predicate Z was fetched at 1 with the flag P set: it was
\* skipped, and its event was sent
C13_Witness ==
    /\ event.instr.op = "STORE"
    /\ event.instr.cond = CondFlag.Z
    /\ event.subject.condition = CondFlag.P
    /\ event.pc_addr = 1
    /\ event.instr_word = memory[1]
    /\ registers[PC] = 2
    /\ memory = event.subject.memory

(***************************************************************************)
(* Properties of bitfield.py                                               *)
(***************************************************************************)
\* bit k of x, x in two's complement
RECURSIVE Bit(_, _)
Bit(x, k) == IF k = 0 THEN x % 2 ELSE Bit(x \div 2, k - 1)

\* C14: extract(insert(v, w)) is v mod 2^width, and every bit of
\* insert(v, w) outside the field is the same bit of w.
C14_InsertExtract ==
    (call.fn = "insert" /\ returned.done) =>
        /\ ~returned.raised
        /\ returned.value = call.field_val % Pow2(call.to_bit - call.from_bit + 1)
        /\ \A k \in (0 .. (WORD_SIZE - 1)) \ (call.from_bit .. call.to_bit) :
               Bit(returned.word, k) = Bit(call.word, k)

\* 31 was inserted in bits 1..3 of 21: the field reads 7, its old value 2
\* is gone, and the bits 0 and 4 of 21 are kept
C14_Witness ==
    /\ call = InsertCall(1, 3, 31, 21)
    /\ returned.done
    /\ returned.value = 7
    /\ returned.word = 31

\* the field of width bits read as a two's complement number
Signed(f, width) == IF Bit(f, width - 1) = 0 THEN f ELSE f - Pow2(width)

\* C15: for width >= 2 and 0 <= f < 2^width, sign_extend(f, width) is f when
\* bit width-1 of f is 0 and f - 2^width otherwise; it is non-negative
\* exactly when that bit is 0 and lies in [-2^(width-1), 2^(width-1));
\* extract_signed gives that value of the field it extracts.
C15_SignExtendValue ==
    /\ (call.fn = "sign_extend" /\ returned.done /\ call.width >= 2
        /\ call.field_val >= 0 /\ call.field_val < Pow2(call.width)) =>
           /\ ~returned.raised
           /\ returned.value = Signed(call.field_val, call.width)
           /\ (returned.value >= 0) <=> (Bit(call.field_val, call.width - 1) = 0)
           /\ returned.value >= -Pow2(call.width - 1)
           /\ returned.value < Pow2(call.width - 1)
    /\ (call.fn = "extract_signed" /\ returned.done /\ call.to_bit > call.from_bit) =>
           /\ ~returned.raised
           /\ returned.value =
                  Signed((call.word \div Pow2(call.from_bit))
                             % Pow2(call.to_bit - call.from_bit + 1),
                         call.to_bit - call.from_bit + 1)

\* sign_extend(13, 4) returned -3
C15_Witness ==
    /\ call = SignExtendCall(13, 4)
    /\ returned.done
    /\ ~returned.raised
    /\ returned.value = -3

\* C16: sign_extend raises exactly when width < 2 or the field does not fit
\* in width bits (field < 0 or field >= 2^width), and so does extract_signed.
C16_SignExtendPrecondition ==
    /\ (call.fn = "sign_extend" /\ returned.done) =>
           (returned.raised <=>
                ~(call.width >= 2 /\ call.field_val >= 0
                  /\ call.field_val < Pow2(call.width)))
    /\ (call.fn = "extract_signed" /\ returned.done) =>
           (returned.raised <=> call.to_bit = call.from_bit)

(***************************************************************************)
(* The assembler on texts with more than ERROR_LIMIT faulty lines          *)
(***************************************************************************)
\* `???`, `BOGUS r1,r2,r3` and `JUMP loop`: a syntax error, an unknown word
\* and, no line defining loop, an unresolved symbol
FaultyLines ==
    { l \in SourceLines :
        \/ l.form = "junk"
        \/ l.form = "instr" /\ l.opcode = "BOGUS" /\ l.label = None
        \/ l.form = "sym" /\ l.opcode = "JUMP" /\ l.symbol = "loop" /\ l.predicate = None }

\* HALT r0,r0,r0
HaltLine ==
    Line(None, "instr", "HALT", None, "r0", "r0", "r0", NoNumber, None, NoValue, None)

\* ERROR_LIMIT + 1 faulty lines and one more line, faulty or not
FaultyTexts ==
    { [i \in 1 .. (ERROR_LIMIT + 2) |-> IF i <= ERROR_LIMIT + 1 THEN f[i] ELSE last] :
        f \in [1 .. (ERROR_LIMIT + 1) -> FaultyLines],
        last \in FaultyLines \cup {HaltLine} }

InitFaulty ==
    /\ lines \in FaultyTexts
    /\ phase = "build_table"
    /\ lnum = 0
    /\ address = 0
    /\ datadict = NoTable
    /\ instructions = <<>>
    /\ registers = ZeroRegs
    /\ memory = ZeroMem
    /\ condition = CondFlag.ALWAYS
    /\ halted = FALSE
    /\ running = FALSE
    /\ event = NoEvent
    /\ call = NoCall
    /\ returned = NotReturned

SpecFaulty == InitFaulty /\ [][NextAsm]_vars

\* line i is reported as an error in pass 2: a syntax error, an unknown
\* word, an unresolved symbol or a DATA line without a value
Faulty(i) ==
    \/ Parsed(i).kind = "SyntaxError"
    \/ Parsed(i).kind = "FULL" /\ ~instruction_from_dict_ok(fill_defaults(Parsed(i)))
    \/ Parsed(i).kind = "SYMBOL" /\ Parsed(i).symbol \notin DOMAIN datadict
    \/ Parsed(i).kind = "DATA" /\ Parsed(i).value = NoValue

\* the errors pass 2 has reported when it is through line i
ErrorsThrough(i) == Cardinality({ j \in 1 .. i : Faulty(j) })

\* C17: once more than ERROR_LIMIT errors are reported the run is
\* abandoned: no line is emitted for a source line after the one whose
\* error exceeded the limit.
C17_AbandonsAfterErrorLimit ==
    \A k \in 1 .. Len(instructions) :
        ErrorsThrough(instructions[k].lnum + 1) <= ERROR_LIMIT

(***************************************************************************)
(* The frame of an executed step                                           *)
(***************************************************************************)
\* the ALU's result and flags for the fetched instruction, on the operands
\* as the registers hold them when the step begins
ALUOfFetched ==
    ALU_exec(Fetched.op, ReadsOf(Fetched.reg_src1),
             ReadsOf(Fetched.reg_src2) + Fetched.offset)

\* the registers but for the program counter and register t
OthersKept(t) == \A i \in Regs \ {t, PC} : registers'[i] = registers[i]

\* C18: an executed step takes the ALU's flags whatever the opcode; LOAD
\* changes only the target register, to memory[R]; STORE changes only
\* memory[R], to the target register's value; HALT sets halted and writes no
\* register and no memory word; any other opcode changes only the target
\* register, to R.
C18_ExecutedStepFrame ==
    [][ Executed =>
            LET R == ALUOfFetched[1]
                t == Fetched.reg_target
            IN  /\ condition' = ALUOfFetched[2]
                /\ halted' = (halted \/ Fetched.op = "HALT")
                /\ (t # PC \/ Fetched.op \in {"STORE", "HALT"})
                       => registers'[PC] = FetchAddr + 1
                /\ Fetched.op = "LOAD" =>
                       /\ OthersKept(t)
                       /\ memory' = memory
                       /\ IF InMemory(R) /\ t # 0
                          THEN registers'[t] = memory[R]
                          ELSE t # PC => registers'[t] = registers[t]
                /\ Fetched.op = "STORE" =>
                       /\ OthersKept(PC)
                       /\ memory' = IF InMemory(R)
                                    THEN [memory EXCEPT ![R] =
                                              IF t = PC THEN FetchAddr + 1
                                              ELSE ReadsOf(t)]
                                    ELSE memory
                /\ Fetched.op = "HALT" =>
                       /\ halted'
                       /\ OthersKept(PC)
                       /\ memory' = memory
                /\ Fetched.op \notin {"LOAD", "STORE", "HALT"} =>
                       /\ OthersKept(t)
                       /\ memory' = memory
                       /\ t # 0 => registers'[t] = R ]_vars

\* a STORE was executed: it changed a memory word and the flags, and no
\* register but the program counter
C18_Witness ==
    /\ event.instr.op = "STORE"
    /\ step_executes(event.subject, event.instr)
    /\ memory # event.subject.memory
    /\ condition # event.subject.condition
    /\ \A i \in Regs \ {PC} : registers[i] = event.subject.registers[i]
    /\ registers[PC] = event.pc_addr + 1

(***************************************************************************)
(* What pass 2 emits for a line                                            *)
(***************************************************************************)
\* the part of an emitted line that renders part p of the source line: the
\* part itself, and no text at all for a part the source line lacks
Rendered(p) == IF p = None THEN Absent ELSE p

\* C19: a symbolic instruction resolves to an instruction with the predicate
\* of the source line, and to one without predicate when the source line has
\* none: for JUMP, LOAD and STORE alike.
C19_PredicateKept ==
    \A k \in 1 .. Len(instructions) :
        instructions[k].kind = "RESOLVED" =>
            instructions[k].predicate = Rendered(SourceOf(instructions[k]).predicate)

\* the parts of an emitted line that are text
TextParts == {"label", "opcode", "predicate", "target", "src1", "src2", "comment"}

\* C20: an emitted line is built only from the fields the source line has:
\* it carries the label of the source line exactly when there is one, a
\* comment/label-only line emits just its label and its comment, a DATA line
\* its label and its parsed value, a resolved LOAD or STORE names the target
\* of the source line if it names one, and no part of an emitted line is the
\* placeholder text None.
C20_OnlyPresentFields ==
    \A k \in 1 .. Len(instructions) :
        LET out == instructions[k]
            src == SourceOf(out)
        IN  /\ out.kind \in {"RESOLVED", "DATA", "COMMENT"}
                   => out.label = Rendered(src.label)
            /\ out.kind = "COMMENT" => out.comment = Rendered(src.comment)
            /\ out.kind = "DATA" => out.value = <<value_parse(src.value)>>
            /\ (out.kind = "RESOLVED" /\ src.opcode \in {"LOAD", "STORE"})
                   => out.target = Rendered(src.target)
            /\ \A p \in TextParts : out[p] # None

====
